---------------------------- MODULE Spec2Model ----------------------------
(***************************************************************************)
(* A model of PrepareChain (src/PrepareChain.py): the sentence segmenter   *)
(* _divide, the triplet extractor _make_triplet, the accumulation loop of  *)
(* make_triplet_freqs and the persistence routine save.                    *)
(*                                                                         *)
(* The morphological analyser (MeCab) and the SQLite store are external:   *)
(* the analyser's output for each sentence is an input of the model, and   *)
(* the store is modelled by its committed table and the transaction of     *)
(* the connection that save opens.                                         *)
(***************************************************************************)
EXTENDS Integers, Sequences, FiniteSets, TLC

VARIABLES
    \* make_triplet_freqs
    corpus,         \* the morphemes of each sentence, as the analyser returns them
    order,          \* the order in which the loop visits the sentences of corpus
    idx,            \* number of sentences the loop has consumed
    triplets,       \* the value _make_triplet returned in the last iteration
    triplet_freqs,  \* the accumulator of make_triplet_freqs
    cpc,            \* position in make_triplet_freqs
    \* _divide
    text,           \* the argument of _divide, a sequence of characters
    sentences,      \* the value _divide returned
    dpc,            \* position in _divide
    \* save
    table,          \* committed rows of chain_freqs in chain.db
    con,            \* the connection of the current call: "none", "open", "closed"
    leaked,         \* connections of earlier calls that are still open
    in_transaction, \* the connection has begun a transaction
    pending,        \* rows inserted in the connection's uncommitted transaction
    arg_freqs,      \* argument triplet_freqs of the current call
    arg_init,       \* argument init of the current call
    datas,          \* the row list built at line 141
    k,              \* rows of datas that executemany has inserted
    before,         \* table when the current call began
    schema_ran,     \* the current call executed the schema script
    committed,      \* the current call executed con.commit()
    calls,          \* number of save calls begun
    spc             \* position in save

chainVars == <<corpus, order, idx, triplets, triplet_freqs, cpc>>
divideVars == <<text, sentences, dpc>>
saveVars == <<table, con, leaked, in_transaction, pending, arg_freqs, arg_init,
              datas, k, before, schema_ran, committed, calls, spc>>
vars == <<chainVars, divideVars, saveVars>>

---------------------------------------------------------------------------
(* Bounds of the model.                                                    *)

MaxSentences == 2
MaxSentenceLen == 3
MaxMorphemes == 4
MaxTextLen == 4

---------------------------------------------------------------------------
(* Constants of PrepareChain.                                              *)

BEGIN == "__BEGIN_SENTENCE__"
END == "__END_SENTENCE__"

Sentinels == {BEGIN, END}
Words == {"A", "B"}

SeqsUpTo(S, n) == UNION {[1..m -> S] : m \in 0..n}

---------------------------------------------------------------------------
(* Dictionaries: a dict is a function whose domain is its key set.         *)

EmptyMap == [t \in {} |-> 0]

\* d[key] = value
Assign(d, key, value) ==
    [t \in DOMAIN d \cup {key} |-> IF t = key THEN value ELSE d[t]]

\* d[key] += n on a defaultdict(int)
Increment(d, key, n) ==
    [t \in DOMAIN d \cup {key} |->
        (IF t \in DOMAIN d THEN d[t] ELSE 0) + (IF t = key THEN n ELSE 0)]

---------------------------------------------------------------------------
(* _make_triplet                                                           *)

\* a mutant of count_window: the window's count is set, not incremented
count_window_set(freqs, triplet) == Assign(freqs, triplet, 1)

\* triplet_freqs[triplet] += 1
count_window(freqs, triplet) == Increment(freqs, triplet, 1)

\* for i in xrange(len(morphemes)-2): triplet = tuple(morphemes[i:i+3]); ...
\* i is the 0-based index of the code
RECURSIVE count_windows(_, _, _)
count_windows(morphemes, i, freqs) ==
    IF i >= Len(morphemes) - 2 THEN freqs
    ELSE count_windows(morphemes, i + 1,
                       count_window(freqs, SubSeq(morphemes, i + 1, i + 3)))

begin_triplet(morphemes) == <<BEGIN, morphemes[1], morphemes[2]>>

\* a mutant of end_triplet: END is put before the last morpheme
end_triplet_swapped(morphemes) ==
    <<morphemes[Len(morphemes) - 1], END, morphemes[Len(morphemes)]>>

end_triplet(morphemes) ==
    <<morphemes[Len(morphemes) - 1], morphemes[Len(morphemes)], END>>

\* a mutant of too_short: a two-morpheme sentence is let through
too_short_off_by_one(morphemes) == Len(morphemes) < 2

too_short(morphemes) == Len(morphemes) < 3

_make_triplet(morphemes) ==
    IF too_short(morphemes) THEN EmptyMap
    ELSE LET windows == count_windows(morphemes, 0, EmptyMap)
             with_begin == Assign(windows, begin_triplet(morphemes), 1)
         IN  Assign(with_begin, end_triplet(morphemes), 1)

---------------------------------------------------------------------------
(* make_triplet_freqs                                                      *)

\* a mutant of add_item: the count is overwritten, not added
add_item_overwrite(freqs, triplet, n) == Assign(freqs, triplet, n)

\* triplet_freqs[triplet] += n
add_item(freqs, triplet, n) == Increment(freqs, triplet, n)

\* for (triplet, n) in triplets.items(): triplet_freqs[triplet] += n
\* (a dict is iterated in an arbitrary order; its keys are distinct)
RECURSIVE add_items(_, _, _)
add_items(freqs, items, keys) ==
    IF keys = {} THEN freqs
    ELSE LET triplet == CHOOSE t \in keys : TRUE
         IN  add_items(add_item(freqs, triplet, items[triplet]), items,
                       keys \ {triplet})

\* a mutant of loop_body: the accumulator is created inside the loop
loop_body_fresh_accumulator(freqs, morphemes) == _make_triplet(morphemes)

\* the body of the for loop: triplets = self._make_triplet(morphemes), then
\* the counts of triplets are added to triplet_freqs
loop_body(freqs, morphemes) ==
    LET made == _make_triplet(morphemes)
    IN  add_items(freqs, made, DOMAIN made)

\* the for loop run over the sentences i+1.. of c, from the accumulator freqs
RECURSIVE for_sentences(_, _, _)
for_sentences(c, i, freqs) ==
    IF i >= Len(c) THEN freqs
    ELSE for_sentences(c, i + 1, loop_body(freqs, c[i + 1]))

\* the dictionary make_triplet_freqs returns when the analyser gives c
make_triplet_freqs(c) == for_sentences(c, 0, EmptyMap)

\* the orders in which n sentences can be visited
Orders(n) ==
    {p \in [1..n -> 1..n] : \A i, j \in 1..n : p[i] = p[j] => i = j}

Identity(n) == [i \in 1..n |-> i]

ChainIdle ==
    /\ corpus = <<>>
    /\ order = <<>>
    /\ idx = 0
    /\ triplets = EmptyMap
    /\ triplet_freqs = EmptyMap
    /\ cpc = "idle"

ChainStart(c, o) ==
    /\ corpus = c
    /\ order = o
    /\ idx = 0
    /\ triplets = EmptyMap
    /\ triplet_freqs = EmptyMap
    /\ cpc = "loop"

\* one iteration of the for loop of make_triplet_freqs
LoopBody ==
    /\ cpc = "loop"
    /\ idx < Len(corpus)
    /\ LET morphemes == corpus[order[idx + 1]]
       IN  /\ triplets' = _make_triplet(morphemes)
           /\ triplet_freqs' = loop_body(triplet_freqs, morphemes)
    /\ idx' = idx + 1
    /\ UNCHANGED <<corpus, order, cpc>>
    /\ UNCHANGED <<divideVars, saveVars>>

\* return triplet_freqs
LoopReturn ==
    /\ cpc = "loop"
    /\ idx = Len(corpus)
    /\ cpc' = "done"
    /\ UNCHANGED <<corpus, order, idx, triplets, triplet_freqs>>
    /\ UNCHANGED <<divideVars, saveVars>>

NextChain == LoopBody \/ LoopReturn

---------------------------------------------------------------------------
(* _divide                                                                 *)
(* A text is a sequence of characters.  The alphabet holds a letter, the   *)
(* space, the two line breaks LF and CR, and the three delimiters of the   *)
(* regular expression at line 68.                                          *)

LF == "LF"
CR == "CR"
SP == "SP"
IDEOGRAPHIC_FULL_STOP == "IDEOGRAPHIC_FULL_STOP"
FULLWIDTH_FULL_STOP == "FULLWIDTH_FULL_STOP"
ASCII_FULL_STOP == "ASCII_FULL_STOP"

delimiter == {IDEOGRAPHIC_FULL_STOP, FULLWIDTH_FULL_STOP, ASCII_FULL_STOP}
LineBreaks == {LF, CR}
Whitespace == {SP, LF, CR}
Chars == {"a", SP} \cup LineBreaks \cup delimiter

\* a mutant of replacement: the delimiter is replaced by the line break
replacement_drops_delimiter(c) == <<LF>>

\* the replacement r"\1\n" of a matched delimiter c
replacement(c) == <<c, LF>>

\* re.sub(ur"({0})".format(delimiter), r"\1\n", text)
RECURSIVE re_sub(_)
re_sub(s) ==
    IF s = <<>> THEN <<>>
    ELSE (IF Head(s) \in delimiter THEN replacement(Head(s)) ELSE <<Head(s)>>)
         \o re_sub(Tail(s))

\* text.splitlines(): CR LF is one line break, and a text that ends with a
\* line break has no empty last line
RECURSIVE splitlines_from(_, _, _)
splitlines_from(s, line, lines) ==
    IF s = <<>> THEN (IF line = <<>> THEN lines ELSE Append(lines, line))
    ELSE IF Head(s) = LF THEN splitlines_from(Tail(s), <<>>, Append(lines, line))
    ELSE IF Head(s) = CR THEN
        IF Len(s) >= 2 /\ s[2] = LF
        THEN splitlines_from(Tail(Tail(s)), <<>>, Append(lines, line))
        ELSE splitlines_from(Tail(s), <<>>, Append(lines, line))
    ELSE splitlines_from(Tail(s), Append(line, Head(s)), lines)

splitlines(s) == splitlines_from(s, <<>>, <<>>)

RECURSIVE lstrip(_)
lstrip(s) ==
    IF s # <<>> /\ Head(s) \in Whitespace THEN lstrip(Tail(s)) ELSE s

RECURSIVE rstrip(_)
rstrip(s) ==
    IF s # <<>> /\ s[Len(s)] \in Whitespace
    THEN rstrip(SubSeq(s, 1, Len(s) - 1)) ELSE s

\* sentence.strip()
strip(s) == rstrip(lstrip(s))

_divide(t) ==
    LET lines == splitlines(re_sub(t))
    IN  [i \in 1..Len(lines) |-> strip(lines[i])]

DivideIdle ==
    /\ text = <<>>
    /\ sentences = <<>>
    /\ dpc = "idle"

Divide ==
    /\ dpc = "call"
    /\ sentences' = _divide(text)
    /\ dpc' = "returned"
    /\ UNCHANGED text
    /\ UNCHANGED <<chainVars, saveVars>>

---------------------------------------------------------------------------
(* save                                                                    *)
(* The store is SQLite through Python's sqlite3 module.  table is what a   *)
(* reader of chain.db sees: the committed rows.  A connection opened with  *)
(* the default isolation level begins a transaction before an INSERT, and  *)
(* its rows reach table when the connection commits; a connection that is  *)
(* dropped without a commit rolls its transaction back.                    *)

MaxFreq == 2
MaxCalls == 2

SaveTriplets == {<<BEGIN, "A", "B">>, <<"A", "B", END>>}

\* the dictionaries handed to save
FreqMaps == UNION {[D -> 1..MaxFreq] : D \in SUBSET SaveTriplets}

\* a mutant of Row: the columns prefix2 and suffix are exchanged
Row_columns_exchanged(triplet, freq) ==
    <<triplet[1], triplet[3], triplet[2], freq>>

\* (triplet[0], triplet[1], triplet[2], freq)
Row(triplet, freq) == <<triplet[1], triplet[2], triplet[3], freq>>

\* the lists that the comprehension over triplet_freqs.items() can build:
\* one row per entry, in any order
ItemLists(freqs) ==
    {l \in [1..Cardinality(DOMAIN freqs) -> {Row(t, freqs[t]) : t \in DOMAIN freqs}] :
        \A i, j \in 1..Len(l) : l[i] = l[j] => i = j}

\* a mutant of isolation_level: the connection is opened in autocommit mode
isolation_level_autocommit == "None"

\* sqlite3.connect(PrepareChain.DB_PATH): the default isolation level
isolation_level == ""

\* a mutant of init_block: the block is entered whatever init is
init_block_always(init) == TRUE

\* if init:
init_block(init) == init

\* the table after schema.sql has run: the script drops chain_freqs and
\* creates it again
schema_script(rows) == <<>>

InitialTables ==
    {<<>>} \cup {<<Row(t, f)>> : t \in SaveTriplets, f \in 1..MaxFreq}

SaveIdle ==
    /\ table = <<>>
    /\ con = "none"
    /\ leaked = 0
    /\ in_transaction = FALSE
    /\ pending = <<>>
    /\ arg_freqs = EmptyMap
    /\ arg_init = FALSE
    /\ datas = <<>>
    /\ k = 0
    /\ before = <<>>
    /\ schema_ran = FALSE
    /\ committed = FALSE
    /\ calls = 0
    /\ spc = "idle"

Ended == spc \in {"returned", "raised"}

\* a failure at the current statement: the exception leaves save
Raise == spc' = "raised"

\* a caller invokes save(triplet_freqs, init)
SaveCall ==
    /\ spc = "idle" \/ Ended
    /\ calls < MaxCalls
    /\ \E freqs \in FreqMaps, init \in BOOLEAN :
          /\ arg_freqs' = freqs
          /\ arg_init' = init
    /\ leaked' = leaked + (IF con = "open" THEN 1 ELSE 0)
    /\ con' = "none"
    /\ in_transaction' = FALSE
    /\ pending' = <<>>
    /\ datas' = <<>>
    /\ k' = 0
    /\ before' = table
    /\ schema_ran' = FALSE
    /\ committed' = FALSE
    /\ calls' = calls + 1
    /\ spc' = "connect"
    /\ UNCHANGED table
    /\ UNCHANGED <<chainVars, divideVars>>

\* con = sqlite3.connect(PrepareChain.DB_PATH)
Connect ==
    /\ spc = "connect"
    /\ con' = "open"
    /\ spc' = IF init_block(arg_init) THEN "read_schema" ELSE "commit"
    /\ UNCHANGED <<table, leaked, in_transaction, pending, arg_freqs, arg_init,
                   datas, k, before, schema_ran, committed, calls>>
    /\ UNCHANGED <<chainVars, divideVars>>

ConnectFails ==
    /\ spc = "connect"
    /\ Raise
    /\ UNCHANGED <<table, con, leaked, in_transaction, pending, arg_freqs,
                   arg_init, datas, k, before, schema_ran, committed, calls>>
    /\ UNCHANGED <<chainVars, divideVars>>

\* with open(PrepareChain.DB_SCHEMA_PATH, "r") as f: schema = f.read()
ReadSchema ==
    /\ spc = "read_schema"
    /\ spc' = "executescript"
    /\ UNCHANGED <<table, con, leaked, in_transaction, pending, arg_freqs,
                   arg_init, datas, k, before, schema_ran, committed, calls>>
    /\ UNCHANGED <<chainVars, divideVars>>

ReadSchemaFails ==
    /\ spc = "read_schema"
    /\ Raise
    /\ UNCHANGED <<table, con, leaked, in_transaction, pending, arg_freqs,
                   arg_init, datas, k, before, schema_ran, committed, calls>>
    /\ UNCHANGED <<chainVars, divideVars>>

\* con.executescript(schema): the statements of the script run outside any
\* transaction, so what they do is committed as they run
ExecuteScript ==
    /\ spc = "executescript"
    /\ table' = schema_script(table)
    /\ schema_ran' = TRUE
    /\ spc' = "format"
    /\ UNCHANGED <<con, leaked, in_transaction, pending, arg_freqs, arg_init,
                   datas, k, before, committed, calls>>
    /\ UNCHANGED <<chainVars, divideVars>>

\* the script fails at its first statement, or after it has dropped the table
ExecuteScriptFails ==
    /\ spc = "executescript"
    /\ table' \in {table, <<>>}
    /\ schema_ran' = TRUE
    /\ Raise
    /\ UNCHANGED <<con, leaked, in_transaction, pending, arg_freqs, arg_init,
                   datas, k, before, committed, calls>>
    /\ UNCHANGED <<chainVars, divideVars>>

\* datas = [(triplet[0], triplet[1], triplet[2], freq) for ...]
FormatDatas ==
    /\ spc = "format"
    /\ datas' \in ItemLists(arg_freqs)
    /\ spc' = "executemany"
    /\ UNCHANGED <<table, con, leaked, in_transaction, pending, arg_freqs,
                   arg_init, k, before, schema_ran, committed, calls>>
    /\ UNCHANGED <<chainVars, divideVars>>

\* con.executemany(p_statement, datas): the transaction begins before the
\* first row is bound
ExecuteManyBegin ==
    /\ spc = "executemany"
    /\ in_transaction' = (isolation_level # "None")
    /\ spc' = "insert"
    /\ UNCHANGED <<table, con, leaked, pending, arg_freqs, arg_init, datas, k,
                   before, schema_ran, committed, calls>>
    /\ UNCHANGED <<chainVars, divideVars>>

\* con.executemany(p_statement, datas): one row is inserted
ExecuteManyRow ==
    /\ spc = "insert"
    /\ k < Len(datas)
    /\ IF in_transaction
       THEN pending' = Append(pending, datas[k + 1]) /\ UNCHANGED table
       ELSE table' = Append(table, datas[k + 1]) /\ UNCHANGED pending
    /\ k' = k + 1
    /\ UNCHANGED <<con, leaked, in_transaction, arg_freqs, arg_init, datas,
                   before, schema_ran, committed, calls, spc>>
    /\ UNCHANGED <<chainVars, divideVars>>

\* con.executemany(p_statement, datas): a row cannot be bound or inserted
ExecuteManyRowFails ==
    /\ spc = "insert"
    /\ k < Len(datas)
    /\ Raise
    /\ UNCHANGED <<table, con, leaked, in_transaction, pending, arg_freqs,
                   arg_init, datas, k, before, schema_ran, committed, calls>>
    /\ UNCHANGED <<chainVars, divideVars>>

\* con.executemany(p_statement, datas): the list is exhausted
ExecuteManyDone ==
    /\ spc = "insert"
    /\ k = Len(datas)
    /\ spc' = "commit"
    /\ UNCHANGED <<table, con, leaked, in_transaction, pending, arg_freqs,
                   arg_init, datas, k, before, schema_ran, committed, calls>>
    /\ UNCHANGED <<chainVars, divideVars>>

\* con.commit(): without a transaction it does nothing
Commit ==
    /\ spc = "commit"
    /\ table' = table \o pending
    /\ pending' = <<>>
    /\ in_transaction' = FALSE
    /\ committed' = TRUE
    /\ spc' = "close"
    /\ UNCHANGED <<con, leaked, arg_freqs, arg_init, datas, k, before,
                   schema_ran, calls>>
    /\ UNCHANGED <<chainVars, divideVars>>

\* con.commit(): the COMMIT of the open transaction fails
CommitFails ==
    /\ spc = "commit"
    /\ in_transaction
    /\ Raise
    /\ UNCHANGED <<table, con, leaked, in_transaction, pending, arg_freqs,
                   arg_init, datas, k, before, schema_ran, committed, calls>>
    /\ UNCHANGED <<chainVars, divideVars>>

\* con.close()
Close ==
    /\ spc = "close"
    /\ con' = "closed"
    /\ spc' = "returned"
    /\ UNCHANGED <<table, leaked, in_transaction, pending, arg_freqs, arg_init,
                   datas, k, before, schema_ran, committed, calls>>
    /\ UNCHANGED <<chainVars, divideVars>>

\* the interpreter frees the connection object of the call that raised:
\* its transaction is rolled back
Dealloc ==
    /\ spc = "raised"
    /\ con = "open"
    /\ con' = "closed"
    /\ pending' = <<>>
    /\ in_transaction' = FALSE
    /\ UNCHANGED <<table, leaked, arg_freqs, arg_init, datas, k, before,
                   schema_ran, committed, calls, spc>>
    /\ UNCHANGED <<chainVars, divideVars>>

\* the interpreter frees the connection object of an earlier call
DeallocLeaked ==
    /\ leaked > 0
    /\ leaked' = leaked - 1
    /\ UNCHANGED <<table, con, in_transaction, pending, arg_freqs, arg_init,
                   datas, k, before, schema_ran, committed, calls, spc>>
    /\ UNCHANGED <<chainVars, divideVars>>

NextSave ==
    \/ SaveCall
    \/ Connect
    \/ ConnectFails
    \/ ReadSchema
    \/ ReadSchemaFails
    \/ ExecuteScript
    \/ ExecuteScriptFails
    \/ FormatDatas
    \/ ExecuteManyBegin
    \/ ExecuteManyRow
    \/ ExecuteManyRowFails
    \/ ExecuteManyDone
    \/ Commit
    \/ CommitFails
    \/ Close
    \/ Dealloc
    \/ DeallocLeaked

---------------------------------------------------------------------------
(* Specifications.                                                         *)

\* make_triplet_freqs over a corpus of sentences of ordinary words
InitFreqs ==
    /\ \E c \in SeqsUpTo(SeqsUpTo(Words, MaxSentenceLen), MaxSentences) :
          ChainStart(c, Identity(Len(c)))
    /\ DivideIdle
    /\ SaveIdle

SpecFreqs == InitFreqs /\ [][NextChain]_vars

\* make_triplet_freqs over the same corpora with the sentences visited in
\* any order
InitOrder ==
    /\ \E c \in SeqsUpTo(SeqsUpTo(Words, MaxSentenceLen), MaxSentences) :
          \E o \in Orders(Len(c)) : ChainStart(c, o)
    /\ DivideIdle
    /\ SaveIdle

SpecOrder == InitOrder /\ [][NextChain]_vars

\* make_triplet_freqs over one sentence whose morphemes may be any strings,
\* the sentinel strings included
InitTriplet ==
    /\ \E m \in SeqsUpTo(Words \cup Sentinels, MaxMorphemes) :
          ChainStart(<<m>>, Identity(1))
    /\ DivideIdle
    /\ SaveIdle

SpecTriplet == InitTriplet /\ [][NextChain]_vars

\* _divide over every text of the alphabet
InitDivide ==
    /\ text \in SeqsUpTo(Chars, MaxTextLen)
    /\ sentences = <<>>
    /\ dpc = "call"
    /\ ChainIdle
    /\ SaveIdle

SpecDivide == InitDivide /\ [][Divide]_vars

\* a sequence of save calls on a store that may hold a row already
InitSave ==
    /\ ChainIdle
    /\ DivideIdle
    /\ table \in InitialTables
    /\ con = "none"
    /\ leaked = 0
    /\ in_transaction = FALSE
    /\ pending = <<>>
    /\ arg_freqs = EmptyMap
    /\ arg_init = FALSE
    /\ datas = <<>>
    /\ k = 0
    /\ before = table
    /\ schema_ran = FALSE
    /\ committed = FALSE
    /\ calls = 0
    /\ spc = "idle"

SpecSave == InitSave /\ [][NextSave]_vars

---------------------------------------------------------------------------
(* Properties of _make_triplet and make_triplet_freqs.                     *)

\* the sentences the loop has consumed, in the order it consumed them
Visited == [i \in 1..idx |-> corpus[order[i]]]

NoSentinel(morphemes) == \A i \in 1..Len(morphemes) : morphemes[i] \notin Sentinels

\* the count the dictionary made gives triplet t: made[t], or 0 without the key
CountIn(made, t) == IF t \in DOMAIN made THEN made[t] ELSE 0

\* the sum of the counts that the first n dictionaries of mades give t
RECURSIVE SumOfContributions(_, _, _)
SumOfContributions(mades, n, t) ==
    IF n = 0 THEN 0
    ELSE SumOfContributions(mades, n - 1, t) + CountIn(mades[n], t)

\* the consumed sentences of three morphemes or more that open with x, y
OpenedBy(x, y) ==
    {i \in 1..idx : /\ Len(Visited[i]) >= 3
                     /\ Visited[i][1] = x
                     /\ Visited[i][2] = y}

\* C1: the accumulator of make_triplet_freqs holds, for every triplet, the sum
\* over the sentences consumed so far of the count _make_triplet gives that
\* triplet on the sentence alone; its keys are the keys some sentence
\* contributed; a (BEGIN, x, y) key counts the sentences that open with x, y.
C1_SumAcrossSentences ==
    LET mades == [i \in 1..idx |-> _make_triplet(Visited[i])]
    IN  /\ DOMAIN triplet_freqs = UNION {DOMAIN mades[i] : i \in 1..idx}
        /\ \A t \in DOMAIN triplet_freqs :
              /\ triplet_freqs[t] = SumOfContributions(mades, idx, t)
              /\ t[1] = BEGIN =>
                    triplet_freqs[t] = Cardinality(OpenedBy(t[2], t[3]))

C1_Witness ==
    /\ cpc = "done"
    /\ idx = 2
    /\ corpus[1] # corpus[2]
    /\ \E t \in DOMAIN triplet_freqs : t[1] = BEGIN /\ triplet_freqs[t] = 2
    /\ \E t \in DOMAIN triplet_freqs : t[1] # BEGIN /\ triplet_freqs[t] = 1

\* the positions of morphemes at which the window t begins
WindowsAt(morphemes, t) ==
    {i \in 1..(Len(morphemes) - 2) : SubSeq(morphemes, i, i + 2) = t}

ExpectedTriplets(morphemes) ==
    LET n == Len(morphemes)
        windows == {SubSeq(morphemes, i, i + 2) : i \in 1..(n - 2)}
        sentinel == {<<BEGIN, morphemes[1], morphemes[2]>>,
                     <<morphemes[n - 1], morphemes[n], END>>}
    IN  [t \in windows \cup sentinel |->
            IF t \in windows THEN Cardinality(WindowsAt(morphemes, t)) ELSE 1]

\* C2: on a sentence of three morphemes or more, none of them a sentinel
\* string, _make_triplet returns exactly: every window mapped to the number
\* of positions at which it occurs, (BEGIN, t0, t1) mapped to 1 and
\* (t[n-2], t[n-1], END) mapped to 1; on exactly three morphemes a, b, c
\* that is {(BEGIN,a,b): 1, (a,b,c): 1, (b,c,END): 1}.
C2_ExactTriplets ==
    (idx = 1 /\ Len(corpus[1]) >= 3 /\ NoSentinel(corpus[1])) =>
        /\ triplets = ExpectedTriplets(corpus[1])
        /\ Len(corpus[1]) = 3 =>
              LET a == corpus[1][1]
                  b == corpus[1][2]
                  c == corpus[1][3]
              IN  triplets = (<<BEGIN, a, b>> :> 1) @@ (<<a, b, c>> :> 1)
                                 @@ (<<b, c, END>> :> 1)

C2_Witness ==
    /\ idx = 1
    /\ corpus[1] = <<"A", "A", "A", "A">>
    /\ triplets[<<"A", "A", "A">>] = 2
    /\ triplets[<<BEGIN, "A", "A">>] = 1

\* C3: an iteration of the loop on a sentence of fewer than three morphemes
\* gets the empty dictionary from _make_triplet and leaves the accumulator
\* of make_triplet_freqs as it was.
C3_ShortSentence ==
    [][(cpc = "loop" /\ idx < Len(corpus) /\ Len(corpus[order[idx + 1]]) < 3)
          => (triplets' = EmptyMap /\ triplet_freqs' = triplet_freqs)]_vars

C3_Witness ==
    /\ idx = 2
    /\ Len(corpus[1]) >= 3
    /\ Len(corpus[2]) = 2
    /\ triplets = EmptyMap
    /\ triplet_freqs = _make_triplet(corpus[1])

\* C8: when the loop of make_triplet_freqs has consumed the sentences of a
\* corpus in any order, its accumulator is the dictionary the loop builds
\* when it consumes them in the order of the corpus.
C8_OrderIndependent ==
    cpc = "done" => triplet_freqs = make_triplet_freqs(corpus)

C8_Witness ==
    /\ cpc = "done"
    /\ Len(corpus) = 2
    /\ order = <<2, 1>>
    /\ corpus[1] # corpus[2]
    /\ \E t \in DOMAIN triplet_freqs : triplet_freqs[t] = 2

SentinelsInPlace(d) ==
    \A t \in DOMAIN d : t[1] # END /\ t[2] \notin Sentinels /\ t[3] # BEGIN

\* C9 as stated: in every key of the dictionary _make_triplet returns and of
\* the accumulator of make_triplet_freqs, BEGIN is only the first element,
\* END only the third and the middle element is no sentinel, whatever the
\* morphemes are.
C9_SentinelsInPlace ==
    SentinelsInPlace(triplets) /\ SentinelsInPlace(triplet_freqs)

\* C9 as amended: the same, for sentences none of whose morphemes is a
\* sentinel string.
C9_SentinelsInPlaceOfWords ==
    (\A i \in 1..idx : NoSentinel(Visited[i])) =>
        SentinelsInPlace(triplets) /\ SentinelsInPlace(triplet_freqs)

C9_Witness ==
    /\ idx = 1
    /\ NoSentinel(corpus[1])
    /\ \E t \in DOMAIN triplet_freqs : t[1] = BEGIN
    /\ \E t \in DOMAIN triplet_freqs : t[3] = END

---------------------------------------------------------------------------
(* Properties of _divide.                                                  *)

\* the positions of text at which a clause ends
ClauseEnds(t) == {i \in 1..Len(t) : t[i] \in delimiter}

\* the text is a sequence of clauses, each ended by a delimiter
ClausesOnly(t) == t = <<>> \/ t[Len(t)] \in delimiter

\* the position at which the n-th clause ends, and the clause
ClauseEnd(t, n) ==
    CHOOSE i \in ClauseEnds(t) : Cardinality({j \in ClauseEnds(t) : j <= i}) = n

Clause(t, n) ==
    SubSeq(t, IF n = 1 THEN 1 ELSE ClauseEnd(t, n - 1) + 1, ClauseEnd(t, n))

\* s is the clause c without the white space that leads it
StrippedClause(s, c) ==
    \E j \in 1..Len(c) :
        /\ s = SubSeq(c, j, Len(c))
        /\ s[1] \notin Whitespace
        /\ \A i \in 1..(j - 1) : c[i] \in Whitespace

OneSentencePerClause ==
    /\ Len(sentences) = Cardinality(ClauseEnds(text))
    /\ \A n \in 1..Len(sentences) :
          /\ sentences[n] # <<>>
          /\ sentences[n][Len(sentences[n])] = text[ClauseEnd(text, n)]
          /\ StrippedClause(sentences[n], Clause(text, n))

\* C10 as stated: for a text made only of clauses that each end in a
\* delimiter, _divide returns one sentence per clause, in text order, each
\* ending with the delimiter of its clause.
C10_OneSentencePerClause ==
    (dpc = "returned" /\ ClausesOnly(text)) => OneSentencePerClause

\* C10 as amended: the same, for a text that holds no line break.
C10_OneSentencePerClauseOfOneLine ==
    (/\ dpc = "returned"
     /\ ClausesOnly(text)
     /\ \A i \in 1..Len(text) : text[i] \notin LineBreaks) => OneSentencePerClause

C10_Witness ==
    /\ dpc = "returned"
    /\ text = <<"a", IDEOGRAPHIC_FULL_STOP, SP, ASCII_FULL_STOP>>
    /\ sentences = <<<<"a", IDEOGRAPHIC_FULL_STOP>>, <<ASCII_FULL_STOP>>>>

---------------------------------------------------------------------------
(* Properties of save.                                                     *)

\* C4: when a save call has ended, by return or by exception, the connection
\* it opened is closed, and no connection of an earlier call is open.
C4_ConnectionReleased == Ended => (con # "open" /\ leaked = 0)

\* C5: when a save call with init = true has ended, by return or by
\* exception, the table holds, after what the call found or what the schema
\* script left, either every row of the call's dictionary or none of them.
C5_AllOrNothing ==
    (Ended /\ arg_init) =>
        \E base \in {before, <<>>} :
            \/ table = base
            \/ \E rows \in ItemLists(arg_freqs) : table = base \o rows

C5_Witness ==
    /\ spc = "raised"
    /\ arg_init
    /\ Len(datas) = 2
    /\ k = 1
    /\ before # <<>>
    /\ table = <<>>

\* C6: a save call with init = false leaves the table as it found it and does
\* not run the schema script; once connected, it commits and closes its
\* connection.
C6_NoInitNoRows ==
    (Ended /\ ~arg_init) =>
        /\ table = before
        /\ ~schema_ran
        /\ con # "none" => (spc = "returned" /\ committed /\ con = "closed")

C6_Witness ==
    /\ spc = "returned"
    /\ ~arg_init
    /\ Cardinality(DOMAIN arg_freqs) = 2
    /\ table # <<>>
    /\ committed
    /\ con = "closed"

\* C7: after a save call with init = true has returned, the table holds
\* exactly len(map) rows, one (prefix1, prefix2, suffix, freq) row per entry
\* of the dictionary, whatever calls came before.
C7_RoundTrip ==
    (spc = "returned" /\ arg_init) =>
        /\ Len(table) = Cardinality(DOMAIN arg_freqs)
        /\ {table[i] : i \in 1..Len(table)} =
              {<<t[1], t[2], t[3], arg_freqs[t]>> : t \in DOMAIN arg_freqs}

C7_Witness ==
    /\ spc = "returned"
    /\ arg_init
    /\ calls = 2
    /\ before # <<>>
    /\ Cardinality(DOMAIN arg_freqs) = 2
    /\ Len(table) = 2

============================================================================
